---------------------------- MODULE Spec2Model ----------------------------
(***************************************************************************)
(* Attendance client: the attendance-action pipeline (location, geofence,  *)
(* biometric, submission) of the dashboard, the classes screen and         *)
(* AttendanceService, the primary/fallback transport of ApiService, and    *)
(* the reconciliation of the work and class fetches into the dashboard's   *)
(* today view.                                                             *)
(*                                                                         *)
(* Conventions.  A JavaScript value that may be null/undefined is a        *)
(* sequence of length at most one: <<>> is null, <<v>> is the value v.     *)
(* A time stamp is a natural number, 0 standing for "absent" (falsy).      *)
(* A class id is a natural number, 0 standing for "undefined" (falsy).     *)
(* Distances are in decimetres so that Math.round can be modelled.         *)
(***************************************************************************)
EXTENDS Integers, Sequences, FiniteSets, TLC

\* ----------------------------------------------------------------------
\* Bounds of the model
\* ----------------------------------------------------------------------
MaxInv == 2        \* attendance actions in flight (or with their alert up) at once
MaxLoad == 1       \* loadAttendanceData calls in flight at once
MaxOverlap == 2    \* the same, where refreshes overlap
MaxClassId == 2    \* class ids 1..MaxClassId
MaxRecords == 1    \* records in one list of a server payload

\* ----------------------------------------------------------------------
\* Program constants
\* ----------------------------------------------------------------------
GEOFENCE_radius == 50      \* metres

Classes == 1..MaxClassId
Types == {"work_checkin", "work_checkout", "class_checkin", "class_checkout"}
WorkTypes == {"work_checkin", "work_checkout"}
ClassTypes == {"class_checkin", "class_checkout"}

\* Distances (decimetres) of the position samples the platform may deliver:
\* on the boundary, just outside (rounds to the radius), clearly outside.
SampleDistances == {500, 504, 1110}

VARIABLES
  isProd,                \* !__DEV__ (fixed for a run of the app)
  usingFallback,         \* API_CONFIG._usingFallback
  attendanceData,        \* DashboardScreen state: the today view (null at first)
  locationStatus,        \* DashboardScreen state: displayed campus status
  actionLoading,         \* DashboardScreen state: the one in-flight slot
  classes,               \* ClassesScreen state: class list with attendance_status
  classesLocationStatus, \* ClassesScreen state: displayed campus status
  classesActionLoading,  \* ClassesScreen state: in-flight key type_classId
  inv,                   \* the attendance-action invocations, by slot
  load,                  \* the loadAttendanceData invocations, by slot
  serverSession,         \* the server: class id of the class session it holds open
  locationCall,          \* the platform and the LocationService.getCurrentLocation call
  biometricCall,         \* the device and the authenticateWithBiometrics call
  storage                \* StorageService: the stored keys and the session they carry

vars == <<isProd, usingFallback, attendanceData, locationStatus, actionLoading,
          classes, classesLocationStatus, classesActionLoading, inv, load,
          serverSession, locationCall, biometricCall, storage>>

\* What lies outside the screens: the server, the location platform, the
\* biometric device and the key store.
envVars == <<serverSession, locationCall, biometricCall, storage>>

dashVars == <<attendanceData, locationStatus, actionLoading>>
classesVars == <<classes, classesLocationStatus, classesActionLoading>>

\* ----------------------------------------------------------------------
\* LocationService / AttendanceService geofence classification
\* ----------------------------------------------------------------------
\* Math.round of a non-negative distance given in decimetres, in metres.
MathRound(dm) == (dm + 5) \div 10

\* distance <= GEOFENCE.radius, on the unrounded distance.
WithinGeofenceStrict(dm) == dm < GEOFENCE_radius * 10
WithinGeofence(dm) == dm <= GEOFENCE_radius * 10

\* The LocationResult of getCurrentLocation: permission denied and platform
\* errors give success = false; a fix gives the verdict and the rounded
\* distance.
LocationFailure == [success |-> FALSE, withinGeofence |-> FALSE, distance |-> -1]
LocationFix(dm) ==
  [success |-> TRUE, withinGeofence |-> WithinGeofence(dm), distance |-> MathRound(dm)]
LocationResults == {LocationFailure} \cup {LocationFix(dm) : dm \in SampleDistances}

\* ----------------------------------------------------------------------
\* BiometricService.authenticateWithBiometrics / verifyBiometric outcomes
\* ----------------------------------------------------------------------
BiometricOutcomes == {"verified", "unsupported", "not_enrolled", "denied"}
\* The result handed to the caller: {success: true} only when verified.
BiometricResult(b) == [success |-> b = "verified"]

\* ----------------------------------------------------------------------
\* Invocations of an attendance action
\* ----------------------------------------------------------------------
Flows == {"dashboard", "classes", "service"}

IdleInv ==
  [flow |-> "none", type |-> "none", classId |-> 0, pc |-> "idle",
   loc |-> "none", bio |-> "none", sent |-> 0, outcome |-> "none"]

NewInv(flow, type, classId) ==
  [IdleInv EXCEPT !.flow = flow, !.type = type, !.classId = classId,
                  !.pc = "locating"]

\* A handler that returns before its first await: only its outcome is left.
ShortCircuit(flow, type, classId, outcome) ==
  [IdleInv EXCEPT !.flow = flow, !.type = type, !.classId = classId,
                  !.pc = "done", !.outcome = outcome]

Slots == 1..MaxInv
FreeSlots == {i \in Slots : inv[i].pc = "idle"}
HasFreeSlot == FreeSlots # {}
FreeSlot == CHOOSE i \in FreeSlots : \A j \in FreeSlots : i <= j


\* ----------------------------------------------------------------------
\* The dashboard's reading of its today view (attendanceData?.today?.x || d)
\* ----------------------------------------------------------------------
IsCheckedIn == attendanceData # <<>> /\ attendanceData[1].is_checked_in
TodayClasses ==
  IF attendanceData = <<>> THEN <<>> ELSE attendanceData[1].class_attendance
ActiveClassSession ==
  IF attendanceData = <<>> THEN <<>> ELSE attendanceData[1].active_class_session

\* The class cards the dashboard renders: todayClasses.slice(0, 3).
ShownClassCards == {n \in 1..Len(TodayClasses) : n <= 3}

\* Button.tsx: a button fires onPress unless disabled || loading.
WorkCheckInEnabled ==
  ~(IsCheckedIn \/ locationStatus # "inside" \/ actionLoading = "work_checkin")
WorkCheckOutEnabled ==
  ~(~IsCheckedIn \/ locationStatus # "inside" \/ actionLoading = "work_checkout")
ClassCheckInEnabled(rec) ==
  ~(~IsCheckedIn \/ rec.check_in_time # 0 \/ locationStatus # "inside"
      \/ actionLoading = "class_checkin")
ClassCheckOutEnabled(rec) ==
  ~(rec.check_in_time = 0 \/ rec.check_out_time # 0 \/ locationStatus # "inside"
      \/ actionLoading = "class_checkout")

\* ----------------------------------------------------------------------
\* The gates of the pipeline
\* ----------------------------------------------------------------------
\* if (!locationResult.success || !locationResult.withinGeofence) -> fail
LocationGateNoGeofence(r) == r.success
LocationGatePasses(r) == r.success /\ r.withinGeofence

\* if (!biometricResult.success) -> fail
BiometricGateSkipped(br) == TRUE
BiometricGatePasses(br) == br.success

\* ----------------------------------------------------------------------
\* DashboardScreen: entry points
\* ----------------------------------------------------------------------
\* handleAttendanceAction, up to its first await: setActionLoading(type) and
\* the call of LocationService.getCurrentLocation().
HandleAttendanceAction(type, classId) ==
  /\ HasFreeSlot
  /\ actionLoading' = type
  /\ inv' = [inv EXCEPT ![FreeSlot] = NewInv("dashboard", type, classId)]
  /\ UNCHANGED <<isProd, envVars, usingFallback, attendanceData, locationStatus,
                 classesVars, load>>

\* handleClassAttendanceAction, up to its first await: the work check-in guard
\* (for both class types), else the call of getCurrentLocation().
HandleClassAttendanceAction(type, classId) ==
  /\ HasFreeSlot
  /\ IF ~IsCheckedIn
       THEN /\ actionLoading' = "none"
            /\ inv' = [inv EXCEPT ![FreeSlot] =
                         ShortCircuit("dashboard", type, classId, "checkin_required")]
       ELSE /\ actionLoading' = type
            /\ inv' = [inv EXCEPT ![FreeSlot] = NewInv("dashboard", type, classId)]
  /\ UNCHANGED <<isProd, envVars, usingFallback, attendanceData, locationStatus,
                 classesVars, load>>

\* An alert raised by a handler that calls nothing else.
AlertOnly(type, classId, outcome) ==
  /\ HasFreeSlot
  /\ inv' = [inv EXCEPT ![FreeSlot] = ShortCircuit("dashboard", type, classId, outcome)]
  /\ UNCHANGED <<isProd, envVars, usingFallback, dashVars, classesVars, load>>

HandleWorkCheckIn == HandleAttendanceAction("work_checkin", 0)
HandleWorkCheckOut == HandleAttendanceAction("work_checkout", 0)

HandleClassCheckIn(classId) ==
  IF classId = 0
    THEN AlertOnly("class_checkin", classId, "class_required")
    ELSE IF ActiveClassSession # <<>>
      THEN AlertOnly("class_checkin", classId, "another_class_active")
      ELSE HandleClassAttendanceAction("class_checkin", classId)

HandleClassCheckOut(classId) ==
  LET activeId == IF ActiveClassSession # <<>>
                    THEN ActiveClassSession[1].class_id ELSE 0
      targetClassId == IF classId # 0 THEN classId ELSE activeId
  IN IF targetClassId = 0
       THEN AlertOnly("class_checkout", classId, "class_required")
       ELSE HandleClassAttendanceAction("class_checkout", targetClassId)

\* The buttons of the dashboard.
PressWorkCheckIn == WorkCheckInEnabled /\ HandleWorkCheckIn
PressWorkCheckOut == WorkCheckOutEnabled /\ HandleWorkCheckOut
PressClassCheckIn ==
  \E n \in ShownClassCards :
    /\ ClassCheckInEnabled(TodayClasses[n])
    /\ HandleClassCheckIn(TodayClasses[n].class_id)
PressClassCheckOut ==
  \E n \in ShownClassCards :
    /\ ClassCheckOutEnabled(TodayClasses[n])
    /\ HandleClassCheckOut(TodayClasses[n].class_id)


\* ----------------------------------------------------------------------
\* ClassesScreen: entry points
\* ----------------------------------------------------------------------
ClassItem(c) == classes[c]
ClassesCheckInEnabled(c) ==
  ~(ClassItem(c).check_in_time # 0 \/ classesLocationStatus # "inside"
      \/ classesActionLoading = <<"class_checkin", c>>)
ClassesCheckOutEnabled(c) ==
  ~(ClassItem(c).check_in_time = 0 \/ ClassItem(c).check_out_time # 0
      \/ classesLocationStatus # "inside"
      \/ classesActionLoading = <<"class_checkout", c>>)

\* ClassesScreen.handleClassAttendance, up to its first await:
\* setActionLoading(`${type}_${classId}`) and the call of getCurrentLocation().
HandleClassAttendance(classId, type) ==
  /\ HasFreeSlot
  /\ classesActionLoading' = <<type, classId>>
  /\ inv' = [inv EXCEPT ![FreeSlot] = NewInv("classes", type, classId)]
  /\ UNCHANGED <<isProd, envVars, usingFallback, dashVars, classes,
                 classesLocationStatus, load>>

PressClassesCheckIn ==
  \E c \in DOMAIN classes :
    ClassesCheckInEnabled(c) /\ HandleClassAttendance(c, "class_checkin")
PressClassesCheckOut ==
  \E c \in DOMAIN classes :
    ClassesCheckOutEnabled(c) /\ HandleClassAttendance(c, "class_checkout")

\* ----------------------------------------------------------------------
\* AttendanceService.markAttendance: an exported entry point with no guard
\* ----------------------------------------------------------------------
MarkAttendance ==
  \E type \in Types, classId \in 0..MaxClassId :
    /\ type \in WorkTypes => classId = 0
    /\ HasFreeSlot
    /\ inv' = [inv EXCEPT ![FreeSlot] = NewInv("service", type, classId)]
    /\ UNCHANGED <<isProd, envVars, usingFallback, dashVars, classesVars, load>>

\* ----------------------------------------------------------------------
\* The steps of the pipeline after the entry (shared shape of
\* handleAttendanceAction, handleClassAttendanceAction, handleClassAttendance
\* and markAttendance)
\* ----------------------------------------------------------------------
\* finally { setActionLoading(null) } of the screen that owns the handler;
\* markAttendance keeps no in-flight indicator.
ReleaseLoadingNever(flow) == UNCHANGED <<actionLoading, classesActionLoading>>
ReleaseLoading(flow) ==
  /\ actionLoading' = IF flow = "dashboard" THEN "none" ELSE actionLoading
  /\ classesActionLoading' = IF flow = "classes" THEN <<>> ELSE classesActionLoading

Finished(r, outcome) == [r EXCEPT !.pc = "done", !.outcome = outcome]

\* getCurrentLocation() resolves with result res.
LocationResolve(i, res) ==
  /\ inv[i].pc = "locating"
  /\ LET r == [inv[i] EXCEPT
                 !.loc = IF ~res.success THEN "failed"
                         ELSE IF res.withinGeofence THEN "inside" ELSE "outside"]
     IN IF LocationGatePasses(res)
          THEN /\ inv' = [inv EXCEPT ![i] = [r EXCEPT !.pc = "biometric"]]
               /\ UNCHANGED <<actionLoading, classesActionLoading>>
          ELSE /\ inv' = [inv EXCEPT ![i] =
                            Finished(r, IF res.success THEN "out_of_range"
                                        ELSE "location_failed")]
               /\ ReleaseLoading(inv[i].flow)
  /\ UNCHANGED <<isProd, serverSession, biometricCall, storage, usingFallback,
                 attendanceData, locationStatus, classes, classesLocationStatus,
                 load>>

\* The biometric gate resolves with outcome b; on success the request
\* {type, location, biometric_verified: true, class_id} is handed to
\* apiService.submitAttendance / submitClassAttendance, which POSTs it.
BiometricResolve(i, b) ==
  /\ inv[i].pc = "biometric"
  /\ LET br == BiometricResult(b)
         r == [inv[i] EXCEPT !.bio = IF br.success THEN "verified" ELSE "failed"]
     IN IF BiometricGatePasses(br)
          THEN /\ inv' = [inv EXCEPT ![i] = [r EXCEPT !.pc = "primary"]]
               /\ UNCHANGED <<actionLoading, classesActionLoading>>
          ELSE /\ inv' = [inv EXCEPT ![i] = Finished(r, "biometric_failed")]
               /\ ReleaseLoading(inv[i].flow)
  /\ UNCHANGED <<isProd, serverSession, locationCall, storage, usingFallback,
                 attendanceData, locationStatus, classes, classesLocationStatus,
                 load>>


\* ----------------------------------------------------------------------
\* ApiService.post -> makeRequestWithFallback (and the plain post of the
\* version without fallback, which is the development behaviour)
\* ----------------------------------------------------------------------
\* What a server attempt can end in: a 2xx whose body says success, a 2xx
\* whose body says success: false, an HTTP error status, no response at all.
TransportOutcomes == {"ok", "rejected", "http_error", "network_error"}
HttpSuccess(o) == o \in {"ok", "rejected"}
\* The request reached a server exactly when the server answered.
Reached(o) == o # "network_error"

\* if (API_CONFIG.IS_PROD && this.fallbackApi && !API_CONFIG.isUsingFallback)
TriesFallback == isProd /\ ~usingFallback

\* ClassesScreen.updateClassAttendanceStatus after a successful submission.
UpdateClassAttendanceStatus(classId, type) ==
  [c \in DOMAIN classes |->
     IF c = classId
       THEN IF type = "class_checkin"
              THEN [classes[c] EXCEPT !.check_in_time = 1]
              ELSE [classes[c] EXCEPT !.check_out_time = 1]
       ELSE classes[c]]

\* The handler's continuation once submitAttendance has returned `response`.
CompleteSubmissionAlways(i, r, success) ==
  /\ inv' = [inv EXCEPT ![i] =
               Finished(r, IF success THEN "succeeded" ELSE "submission_failed")]
  /\ ReleaseLoading(r.flow)
  /\ classes' = IF r.flow = "classes"
                  THEN UpdateClassAttendanceStatus(r.classId, r.type)
                  ELSE classes
CompleteSubmission(i, r, success) ==
  /\ inv' = [inv EXCEPT ![i] =
               Finished(r, IF success THEN "succeeded" ELSE "submission_failed")]
  /\ ReleaseLoading(r.flow)
  /\ classes' = IF r.flow = "classes" /\ success
                  THEN UpdateClassAttendanceStatus(r.classId, r.type)
                  ELSE classes

\* The attempt on the primary server ends in o.
PrimaryResolve(i, o) ==
  /\ inv[i].pc = "primary"
  /\ LET r == [inv[i] EXCEPT !.sent = @ + (IF Reached(o) THEN 1 ELSE 0)]
     IN IF HttpSuccess(o)
          THEN /\ usingFallback' = FALSE        \* resetToPrimary if it was set
               /\ CompleteSubmission(i, r, o = "ok")
          ELSE IF TriesFallback
            THEN /\ usingFallback' = TRUE       \* switchToFallback
                 /\ inv' = [inv EXCEPT ![i] = [r EXCEPT !.pc = "fallback"]]
                 /\ UNCHANGED <<actionLoading, classesActionLoading, classes>>
            ELSE /\ UNCHANGED usingFallback
                 /\ CompleteSubmission(i, r, FALSE)
  /\ UNCHANGED <<isProd, locationCall, biometricCall, storage, attendanceData,
                 locationStatus, classesLocationStatus, load>>

\* The attempt on the fallback server ends in o.
FallbackResolve(i, o) ==
  /\ inv[i].pc = "fallback"
  /\ LET r == [inv[i] EXCEPT !.sent = @ + (IF Reached(o) THEN 1 ELSE 0)]
     IN IF HttpSuccess(o)
          THEN /\ UNCHANGED usingFallback
               /\ CompleteSubmission(i, r, o = "ok")
          ELSE /\ usingFallback' = FALSE        \* resetToPrimary
               /\ CompleteSubmission(i, r, FALSE)
  /\ UNCHANGED <<isProd, locationCall, biometricCall, storage, attendanceData,
                 locationStatus, classesLocationStatus, load>>


\* ----------------------------------------------------------------------
\* Server payloads of the two read endpoints
\* ----------------------------------------------------------------------
SeqsUpTo(S, n) == UNION {[1..k -> S] : k \in 0..n}
Option(S) == {<<>>} \cup {<<x>> : x \in S}

Roles == {"employee", "admin", "unauthenticated", "none"}
WorkRecords == [date : {"today", "other"}, check_in_time : 0..1, check_out_time : 0..1]
ClassRecords == [class_id : 0..MaxClassId, check_in_time : 0..1, check_out_time : 0..1]
ActiveShaped == {r \in ClassRecords : r.class_id # 0 /\ r.check_in_time # 0
                                        /\ r.check_out_time = 0}

\* GET /api/attendance: the call fails (ApiService.get returns success: false)
\* or the body is {success: true, role, isCheckedIn?, attendanceData?}.
FailedResponse == [transport |-> "fail"]
WorkPayloads ==
  [transport : {"ok"}, role : Roles, isCheckedIn : {"true", "false", "missing"},
   attendanceData : Option(SeqsUpTo(WorkRecords, MaxRecords))]

\* GET /api/attendance/class-checkin: the call fails, or the body is
\* {success: true, data?: {today?: {class_attendance?, active_class_session?}}}.
ClassToday ==
  [class_attendance : Option(SeqsUpTo(ClassRecords, MaxRecords)),
   active_class_session : Option(ActiveShaped)]
ClassPayloads == [transport : {"ok"}, data : Option([today : Option(ClassToday)])]

\* ----------------------------------------------------------------------
\* ApiService.getAttendanceData
\* ----------------------------------------------------------------------
\* attendanceRecords.find(record => date of record is today): the first hit.
FindToday(list) ==
  LET hits == {n \in 1..Len(list) : list[n].date = "today"}
  IN IF hits = {} THEN <<>>
     ELSE <<list[CHOOSE n \in hits : \A m \in hits : n <= m]>>

GetAttendanceDataAssumed(p) ==
  IF p.transport # "ok" THEN [success |-> FALSE, data |-> <<>>]
  ELSE [success |-> TRUE,
        data |-> <<[work_attendance |-> <<>>, is_checked_in |-> TRUE]>>]
GetAttendanceData(p) ==
  IF p.transport # "ok" THEN [success |-> FALSE, data |-> <<>>]
  ELSE IF p.role = "employee" THEN
    LET attendanceRecords == IF p.attendanceData = <<>> THEN <<>> ELSE p.attendanceData[1]
        flag == p.isCheckedIn = "true"
        todayRecord == FindToday(attendanceRecords)
        derived == /\ todayRecord # <<>>
                   /\ ~flag
                   /\ todayRecord[1].check_in_time # 0
                   /\ todayRecord[1].check_out_time = 0
    IN [success |-> TRUE,
        data |-> <<[work_attendance |-> todayRecord,
                    is_checked_in |-> flag \/ derived]>>]
  ELSE IF p.role = "unauthenticated" THEN [success |-> FALSE, data |-> <<>>]
  ELSE [success |-> TRUE,
        data |-> <<[work_attendance |-> <<>>, is_checked_in |-> FALSE]>>]

\* ----------------------------------------------------------------------
\* ApiService.getClassAttendanceData
\* ----------------------------------------------------------------------
EmptyClassData ==
  [today |-> <<[class_attendance |-> << <<>> >>, active_class_session |-> <<>>]>>]

GetClassAttendanceDataStrict(p) ==
  IF p.transport = "ok" /\ p.data # <<>>
    THEN [success |-> TRUE, data |-> p.data]
    ELSE [success |-> FALSE, data |-> <<>>]
GetClassAttendanceData(p) ==
  IF p.transport = "ok" /\ p.data # <<>>
    THEN [success |-> TRUE, data |-> p.data]
    ELSE [success |-> TRUE, data |-> <<EmptyClassData>>]

\* ----------------------------------------------------------------------
\* ApiService.getAllAttendanceData (after Promise.all has resolved)
\* ----------------------------------------------------------------------
DefaultWork == [work_attendance |-> <<>>, is_checked_in |-> FALSE]

GetAllAttendanceData(workResponse, classResponse) ==
  IF workResponse.success /\ classResponse.success
    THEN [success |-> TRUE,
          data |-> <<[work |-> IF workResponse.data # <<>>
                                 THEN workResponse.data ELSE <<DefaultWork>>,
                      class |-> IF classResponse.data # <<>>
                                  THEN classResponse.data ELSE <<EmptyClassData>>]>>]
    ELSE [success |-> FALSE,
          data |-> <<[work |-> workResponse.data, class |-> classResponse.data]>>]

\* ----------------------------------------------------------------------
\* DashboardScreen.loadAttendanceData: the view it hands to setAttendanceData
\* ----------------------------------------------------------------------
EmptyView ==
  [work_attendance |-> <<>>, is_checked_in |-> FALSE,
   class_attendance |-> <<>>, active_class_session |-> <<>>]

LoadAttendanceDataViewNoSession(response) ==
  IF response.success /\ response.data # <<>>
    THEN LET workData == response.data[1].work
             classData == response.data[1].class
             classToday == IF classData = <<>> THEN <<>> ELSE classData[1].today
         IN [work_attendance |->
               IF workData = <<>> THEN <<>> ELSE workData[1].work_attendance,
             is_checked_in |-> workData # <<>> /\ workData[1].is_checked_in,
             class_attendance |->
               IF classToday = <<>> \/ classToday[1].class_attendance = <<>>
                 THEN <<>> ELSE classToday[1].class_attendance[1],
             active_class_session |-> <<>>]
    ELSE EmptyView
LoadAttendanceDataView(response) ==
  IF response.success /\ response.data # <<>>
    THEN LET workData == response.data[1].work
             classData == response.data[1].class
             classToday == IF classData = <<>> THEN <<>> ELSE classData[1].today
         IN [work_attendance |->
               IF workData = <<>> THEN <<>> ELSE workData[1].work_attendance,
             is_checked_in |-> workData # <<>> /\ workData[1].is_checked_in,
             class_attendance |->
               IF classToday = <<>> \/ classToday[1].class_attendance = <<>>
                 THEN <<>> ELSE classToday[1].class_attendance[1],
             active_class_session |->
               IF classToday = <<>> THEN <<>> ELSE classToday[1].active_class_session]
    ELSE EmptyView




\* ----------------------------------------------------------------------
\* DashboardScreen.loadAttendanceData as a process
\* ----------------------------------------------------------------------
\* A call: where it is, how each GET ended, and what the two ApiService
\* methods returned.
\* role and isCheckedIn keep what the body of GET /api/attendance said of
\* the two fields getAttendanceData decides on ("unset": no body received).
\* latest: no call of loadAttendanceData() has been made after this one.
IdleLoad ==
  [pc |-> "idle", workGet |-> "none", classGet |-> "none", work |-> <<>>, class |-> <<>>,
   role |-> "unset", isCheckedIn |-> "unset", latest |-> FALSE]
LoadSlots == DOMAIN load
FreeLoads == {k \in LoadSlots : load[k].pc = "idle"}
FreeLoad == CHOOSE k \in FreeLoads : \A j \in FreeLoads : k <= j

\* The call: getAllAttendanceData() fires both fetches (Promise.all).
StartLoadAttendanceData ==
  /\ FreeLoads # {}
  /\ load' = [k \in LoadSlots |->
                IF k = FreeLoad
                  THEN [IdleLoad EXCEPT !.pc = "fetching", !.workGet = "pending",
                                        !.classGet = "pending", !.latest = TRUE]
                  ELSE [load[k] EXCEPT !.latest = FALSE]]

\* getAttendanceData() resolves: GET /api/attendance answered p.
GetAttendanceDataDoneEager(k, p) ==
  /\ load[k].pc = "fetching" /\ load[k].workGet = "pending"
  /\ load' = [load EXCEPT ![k].workGet = p.transport,
                          ![k].work = <<GetAttendanceData(p)>>,
                          ![k].role = IF p.transport = "ok" THEN p.role ELSE "unset",
                          ![k].isCheckedIn =
                            IF p.transport = "ok" THEN p.isCheckedIn ELSE "unset"]
  /\ attendanceData' =
       IF attendanceData # <<>> /\ GetAttendanceData(p).success
         THEN <<[attendanceData[1] EXCEPT
                   !.work_attendance = GetAttendanceData(p).data[1].work_attendance,
                   !.is_checked_in = GetAttendanceData(p).data[1].is_checked_in]>>
         ELSE attendanceData
  /\ UNCHANGED <<isProd, envVars, usingFallback, locationStatus, actionLoading,
                 classesVars, inv>>
GetAttendanceDataDone(k, p) ==
  /\ load[k].pc = "fetching" /\ load[k].workGet = "pending"
  /\ load' = [load EXCEPT ![k].workGet = p.transport,
                          ![k].work = <<GetAttendanceData(p)>>,
                          ![k].role = IF p.transport = "ok" THEN p.role ELSE "unset",
                          ![k].isCheckedIn =
                            IF p.transport = "ok" THEN p.isCheckedIn ELSE "unset"]
  /\ UNCHANGED <<isProd, envVars, usingFallback, dashVars, classesVars, inv>>

\* getClassAttendanceData() resolves: GET /api/attendance/class-checkin answered p.
GetClassAttendanceDataDone(k, p) ==
  /\ load[k].pc = "fetching" /\ load[k].classGet = "pending"
  /\ load' = [load EXCEPT ![k].classGet = p.transport,
                          ![k].class = <<GetClassAttendanceData(p)>>]
  /\ UNCHANGED <<isProd, envVars, usingFallback, dashVars, classesVars, inv>>

\* Promise.all has resolved: the merge and setAttendanceData, in one step.
LoadAttendanceDataDone(k) ==
  /\ load[k].pc = "fetching" /\ load[k].work # <<>> /\ load[k].class # <<>>
  /\ attendanceData' =
       <<LoadAttendanceDataView(GetAllAttendanceData(load[k].work[1], load[k].class[1]))>>
  /\ load' = [load EXCEPT ![k].pc = "finishing"]
  /\ UNCHANGED <<isProd, envVars, usingFallback, locationStatus, actionLoading,
                 classesVars, inv>>

\* finally { setLoading(false); setRefreshing(false) }: the call returns.
LoadAttendanceDataFinally(k) ==
  /\ load[k].pc = "finishing"
  /\ load' = [load EXCEPT ![k] = IdleLoad]
  /\ UNCHANGED <<isProd, envVars, usingFallback, dashVars, classesVars, inv>>

\* The same call seen from the handlers, which share nothing with it but the
\* view it sets: both answers, the merge, setAttendanceData and the return
\* as one step.
LoadAttendanceDataResolve(k, pw, pc) ==
  /\ load[k].pc = "fetching" /\ load[k].workGet = "pending"
  /\ load[k].classGet = "pending"
  /\ attendanceData' =
       <<LoadAttendanceDataView(GetAllAttendanceData(GetAttendanceData(pw),
                                                     GetClassAttendanceData(pc)))>>
  /\ load' = [load EXCEPT ![k] = IdleLoad]
  /\ UNCHANGED <<isProd, envVars, usingFallback, locationStatus, actionLoading,
                 classesVars, inv>>

\* Mount, screen focus or pull-to-refresh of the dashboard: loadAttendanceData().
DashboardFocus ==
  /\ StartLoadAttendanceData
  /\ UNCHANGED <<isProd, envVars, usingFallback, dashVars, classesVars, inv>>

\* checkLocationStatus() of a screen has resolved with res (the call keeps no
\* state between its start and its end).
StatusOf(res, old) ==
  IF res.success THEN (IF res.withinGeofence THEN "inside" ELSE "outside") ELSE old

CheckLocationStatus(res) ==
  /\ locationStatus' = StatusOf(res, locationStatus)
  /\ locationStatus' # locationStatus
  /\ UNCHANGED <<isProd, envVars, usingFallback, attendanceData, actionLoading,
                 classesVars, inv, load>>

ClassesCheckLocationStatus(res) ==
  /\ classesLocationStatus' = StatusOf(res, classesLocationStatus)
  /\ classesLocationStatus' # classesLocationStatus
  /\ UNCHANGED <<isProd, envVars, usingFallback, dashVars, classes,
                 classesActionLoading, inv, load>>

\* ClassesScreen.loadClasses() has resolved with the class list `list`
\* (a failed call leaves the list as it is).
AttendanceStatuses ==
  {st \in [check_in_time : 0..1, check_out_time : 0..1] :
     st.check_out_time # 0 => st.check_in_time # 0}
ClassLists == {<<>>} \cup [Classes -> AttendanceStatuses]

LoadClasses(list) ==
  /\ classes' = list
  /\ classes' # classes
  /\ UNCHANGED <<isProd, envVars, usingFallback, dashVars,
                 classesLocationStatus, classesActionLoading, inv, load>>

\* ----------------------------------------------------------------------
\* The end of an action: the alert's OK button, the return of markAttendance
\* ----------------------------------------------------------------------
\* OK on the alert of a dashboard action; after a success it calls
\* loadAttendanceData().
AlertOk(i) ==
  /\ inv[i].pc = "done" /\ inv[i].flow = "dashboard"
  /\ inv' = [inv EXCEPT ![i] = IdleInv]
  /\ IF inv[i].outcome = "succeeded" THEN StartLoadAttendanceData ELSE UNCHANGED load
  /\ UNCHANGED <<isProd, envVars, usingFallback, dashVars, classesVars>>

\* OK on the alert of a classes-screen action; after a success it calls
\* loadClasses(), whose resolution is LoadClasses.
ClassesAlertOk(i) ==
  /\ inv[i].pc = "done" /\ inv[i].flow = "classes"
  /\ inv' = [inv EXCEPT ![i] = IdleInv]
  /\ UNCHANGED <<isProd, envVars, usingFallback, dashVars, classesVars, load>>

\* markAttendance has returned its result to its caller.
MarkAttendanceReturn(i) ==
  /\ inv[i].pc = "done" /\ inv[i].flow = "service"
  /\ inv' = [inv EXCEPT ![i] = IdleInv]
  /\ UNCHANGED <<isProd, envVars, usingFallback, dashVars, classesVars, load>>

\* ----------------------------------------------------------------------
\* Inputs of the specifications of the handlers
\* ----------------------------------------------------------------------
\* The work answers that differ in what the handlers read: the call fails,
\* or the employee is or is not checked in.
FlowWorkPayloads ==
  {FailedResponse} \cup
    {p \in WorkPayloads : p.role = "employee" /\ p.attendanceData = <<>>
                            /\ p.isCheckedIn # "missing"}

\* The class answers that differ in what the handlers read: a class not yet
\* attended (with or without a session open in another class), a class
\* being attended (with and without active_class_session).
PendingRecord(c) == [class_id |-> c, check_in_time |-> 0, check_out_time |-> 0]
OpenRecord(c) == [class_id |-> c, check_in_time |-> 1, check_out_time |-> 0]
ClassAnswer(list, active) ==
  [transport |-> "ok",
   data |-> <<[today |-> <<[class_attendance |-> <<list>>,
                            active_class_session |-> active]>>]>>]
FlowClassPayloads ==
  {ClassAnswer(<<PendingRecord(MaxClassId)>>, <<>>),
   ClassAnswer(<<PendingRecord(MaxClassId)>>, <<OpenRecord(1)>>),
   ClassAnswer(<<OpenRecord(1)>>, <<OpenRecord(1)>>),
   ClassAnswer(<<OpenRecord(1)>>, <<>>)}

\* The class lists loadClasses may deliver to the classes screen: nothing
\* attended yet, or the first class being attended.
FlowClassLists ==
  {[c \in Classes |-> [check_in_time |-> 0, check_out_time |-> 0]],
   [c \in Classes |-> [check_in_time |-> IF c = 1 THEN 1 ELSE 0, check_out_time |-> 0]]}

\* ----------------------------------------------------------------------
\* A server that echoes the writes
\* ----------------------------------------------------------------------
\* POST /api/attendance/class-checkin answered o for the request of slot i:
\* an accepted class check-in opens the session of the request's class_id,
\* an accepted class check-out of that class closes it.
ServerRecords(i, o) ==
  serverSession' =
    IF o = "ok" /\ inv[i].type = "class_checkin" THEN inv[i].classId
    ELSE IF o = "ok" /\ inv[i].type = "class_checkout"
              /\ inv[i].classId = serverSession THEN 0
    ELSE serverSession

\* GET /api/attendance of that server for an employee checked in to work.
EchoWorkAnswer ==
  [transport |-> "ok", role |-> "employee", isCheckedIn |-> "true",
   attendanceData |-> <<>>]

\* GET /api/attendance/class-checkin of that server: today's classes, the
\* one whose session is open carrying its check-in, and that session.
EchoClassAnswer ==
  ClassAnswer([c \in Classes |-> IF c = serverSession THEN OpenRecord(c)
                                 ELSE PendingRecord(c)],
              IF serverSession = 0 THEN <<>> ELSE <<OpenRecord(serverSession)>>)

\* ----------------------------------------------------------------------
\* LocationService.getCurrentLocation as a process
\* ----------------------------------------------------------------------
\* Platform.OS and, in a browser, whether navigator.geolocation exists.
Platforms == {"native", "web", "web_no_geolocation"}

\* The distances a fix may lie from the centre: the samples, and one metre
\* beyond the radius.
GeofenceDistances == SampleDistances \cup {GEOFENCE_radius * 10 + 10}

\* No call under way.  cache is the distance of the position the browser
\* holds that is younger than maximumAge (0: none); caller is the slot of the
\* action that awaits the call (0: the dashboard's checkLocationStatus);
\* asked: the permission has been requested; requested: a position request
\* has been issued; sample: where the returned position came from; overdue:
\* the position request has been awaited for ten seconds.
IdleCall(platform, cache) ==
  [platform |-> platform, cache |-> cache, pc |-> "idle", caller |-> 0,
   asked |-> FALSE, requested |-> FALSE, permission |-> "none",
   outcome |-> "none", sample |-> "none", dm |-> 0, overdue |-> FALSE]

\* getCurrentLocation() up to its first await.  In a browser it hands
\* getCurrentPosition to navigator.geolocation at once (or resolves with
\* 'not supported'); natively it awaits requestLocationPermission().
GetCurrentLocation(caller) ==
  /\ locationCall.pc = "idle"
  /\ caller # 0 => inv[caller].pc = "locating"
  /\ locationCall' =
       LET call == [locationCall EXCEPT !.caller = caller]
       IN IF locationCall.platform = "web_no_geolocation"
            THEN [call EXCEPT !.pc = "done", !.outcome = "not_supported"]
          ELSE IF locationCall.platform = "web"
            THEN [call EXCEPT !.pc = "position", !.requested = TRUE]
            ELSE [call EXCEPT !.pc = "permission", !.asked = TRUE]
  /\ UNCHANGED <<isProd, serverSession, biometricCall, storage, usingFallback,
                 dashVars, classesVars, inv, load>>

\* Location.requestForegroundPermissionsAsync() resolves (a throw counts as
\* not granted): only status 'granted' lets the call go on to
\* Location.getCurrentPositionAsync.
PermissionStatuses == {"granted", "denied", "undetermined", "error"}
RequestLocationPermissionDone(status) ==
  /\ locationCall.pc = "permission"
  /\ locationCall' =
       IF status = "granted"
         THEN [locationCall EXCEPT !.pc = "position", !.permission = "granted",
                                   !.requested = TRUE]
         ELSE [locationCall EXCEPT !.pc = "done", !.permission = "denied",
                                   !.outcome = "permission_denied"]
  /\ UNCHANGED <<isProd, serverSession, biometricCall, storage, usingFallback,
                 dashVars, classesVars, inv, load>>

\* What the position request can end in.  The browser request carries
\* maximumAge: 60000, so the browser may answer it with the position it
\* holds instead of acquiring one; its errors are PERMISSION_DENIED,
\* POSITION_UNAVAILABLE and TIMEOUT.  The native request gives a position
\* or throws.
PositionOutcomes ==
  IF locationCall.platform = "web"
    THEN {"fix", "denied", "unavailable", "timeout"}
           \cup (IF locationCall.cache # 0 THEN {"cached"} ELSE {})
    ELSE {"fix", "error"}

PositionResolve(o, dm) ==
  /\ locationCall.pc = "position"
  /\ o \in PositionOutcomes
  /\ locationCall' =
       IF o = "fix"
         THEN [locationCall EXCEPT
                 !.pc = "done", !.outcome = "fix", !.sample = "fresh", !.dm = dm,
                 !.cache = IF locationCall.platform = "web" THEN dm ELSE @]
       ELSE IF o = "cached"
         THEN [locationCall EXCEPT
                 !.pc = "done", !.outcome = "fix", !.sample = "cached",
                 !.dm = locationCall.cache]
       ELSE IF o = "denied"
         THEN [locationCall EXCEPT !.pc = "done", !.permission = "denied",
                                   !.outcome = "permission_denied"]
         ELSE [locationCall EXCEPT !.pc = "done", !.outcome = o]
  /\ UNCHANGED <<isProd, serverSession, biometricCall, storage, usingFallback,
                 dashVars, classesVars, inv, load>>

\* Ten seconds pass with the position request unanswered.  The browser
\* request carries timeout: 10000 and its error callback then resolves the
\* call with TIMEOUT; Location.getCurrentPositionAsync is given no timeout
\* and the call stays pending.
TenSecondsPass ==
  /\ locationCall.pc = "position" /\ ~locationCall.overdue
  /\ locationCall' =
       IF locationCall.platform = "web"
         THEN [locationCall EXCEPT !.pc = "done", !.outcome = "timeout"]
         ELSE [locationCall EXCEPT !.overdue = TRUE]
  /\ UNCHANGED <<isProd, serverSession, biometricCall, storage, usingFallback,
                 dashVars, classesVars, inv, load>>

\* More than maximumAge has passed since the browser acquired its position.
CacheExpires ==
  /\ locationCall.cache # 0
  /\ locationCall.pc # "position"
  /\ locationCall' = [locationCall EXCEPT !.cache = 0]
  /\ UNCHANGED <<isProd, serverSession, biometricCall, storage, usingFallback,
                 dashVars, classesVars, inv, load>>

\* The LocationResult the call resolves with.
ResultOf(call) ==
  IF call.outcome = "fix" THEN LocationFix(call.dm) ELSE LocationFailure

\* The call made by the action in slot i resolves: the action goes on.
LocationReturn(i) ==
  /\ locationCall.pc = "done" /\ locationCall.caller = i
  /\ LocationResolve(i, ResultOf(locationCall))
  /\ locationCall' = IdleCall(locationCall.platform, locationCall.cache)

\* The call made by checkLocationStatus resolves: setLocationStatus on success.
CheckLocationStatusReturn ==
  /\ locationCall.pc = "done" /\ locationCall.caller = 0
  /\ locationStatus' = StatusOf(ResultOf(locationCall), locationStatus)
  /\ locationCall' = IdleCall(locationCall.platform, locationCall.cache)
  /\ UNCHANGED <<isProd, serverSession, biometricCall, storage, usingFallback,
                 attendanceData, actionLoading, classesVars, inv, load>>

\* ----------------------------------------------------------------------
\* BiometricService.authenticateWithBiometrics as a process
\* ----------------------------------------------------------------------
\* Platform.OS and, in a browser, whether window exists.
BiometricPlatforms == {"native", "web", "web_no_window"}

\* No call under way on a device that has (or lacks) biometric hardware and
\* an enrolled credential.  caller is the slot of the action that awaits
\* the call; checkedHardware, checkedEnrollment: the call has asked the
\* device and was told yes; challenged: the user has been challenged.
IdleBiometric(platform, hardware, enrolled) ==
  [platform |-> platform, hardware |-> hardware, enrolled |-> enrolled,
   pc |-> "idle", caller |-> 0, checkedHardware |-> FALSE,
   checkedEnrollment |-> FALSE, challenged |-> FALSE, outcome |-> "none"]

\* authenticateWithBiometrics() up to its first await.  In a browser it
\* shows window.confirm at once, which returns the user's answer before the
\* call goes on (with no window it resolves with an error); natively it
\* awaits isBiometricSupported().
AuthenticateWithBiometrics(caller, confirmed) ==
  /\ biometricCall.pc = "idle"
  /\ inv[caller].pc = "biometric"
  /\ biometricCall' =
       LET call == [biometricCall EXCEPT !.caller = caller]
       IN IF biometricCall.platform = "web_no_window"
            THEN [call EXCEPT !.pc = "done", !.outcome = "unsupported"]
          ELSE IF biometricCall.platform = "web"
            THEN [call EXCEPT !.pc = "done", !.challenged = TRUE,
                              !.outcome = IF confirmed THEN "verified" ELSE "denied"]
            ELSE [call EXCEPT !.pc = "hardware"]
  /\ UNCHANGED <<isProd, serverSession, locationCall, storage, usingFallback,
                 dashVars, classesVars, inv, load>>

\* isBiometricSupported() resolves: hasHardwareAsync's answer, or false
\* when it threw.
IsBiometricSupportedDone(threw) ==
  /\ biometricCall.pc = "hardware"
  /\ biometricCall' =
       IF biometricCall.hardware /\ ~threw
         THEN [biometricCall EXCEPT !.pc = "enrollment", !.checkedHardware = TRUE]
         ELSE [biometricCall EXCEPT !.pc = "done", !.outcome = "unsupported"]
  /\ UNCHANGED <<isProd, serverSession, locationCall, storage, usingFallback,
                 dashVars, classesVars, inv, load>>

\* isBiometricEnrolled() resolves: isEnrolledAsync's answer, or false when
\* it threw; on yes the call goes on to LocalAuthentication.authenticateAsync.
IsBiometricEnrolledDone(threw) ==
  /\ biometricCall.pc = "enrollment"
  /\ biometricCall' =
       IF biometricCall.enrolled /\ ~threw
         THEN [biometricCall EXCEPT !.pc = "challenge", !.checkedEnrollment = TRUE,
                                    !.challenged = TRUE]
         ELSE [biometricCall EXCEPT !.pc = "done", !.outcome = "not_enrolled"]
  /\ UNCHANGED <<isProd, serverSession, locationCall, storage, usingFallback,
                 dashVars, classesVars, inv, load>>

\* authenticateAsync resolves with result.success (a throw is caught and
\* gives success: false).
AuthenticateAsyncDone(success) ==
  /\ biometricCall.pc = "challenge"
  /\ biometricCall' =
       [biometricCall EXCEPT !.pc = "done",
                             !.outcome = IF success THEN "verified" ELSE "denied"]
  /\ UNCHANGED <<isProd, serverSession, locationCall, storage, usingFallback,
                 dashVars, classesVars, inv, load>>

\* The call made by the action in slot i resolves: the action goes on.
BiometricReturn(i) ==
  /\ biometricCall.pc = "done" /\ biometricCall.caller = i
  /\ BiometricResolve(i, biometricCall.outcome)
  /\ biometricCall' = IdleBiometric(biometricCall.platform, biometricCall.hardware,
                                    biometricCall.enrolled)

\* ----------------------------------------------------------------------
\* StorageService and the interceptors of ApiService
\* ----------------------------------------------------------------------
\* The keys clearAllUserData removes and the keys it keeps.
UserKeys == {"USER_TOKEN", "USER_DATA", "EMPLOYEE_DATA", "BIOMETRIC_ENROLLED",
             "ATTENDANCE_CACHE"}
KeptKeys == {"LAST_LOCATION", "SETTINGS"}
\* The keys the screens write: the four of a login, and the last location.
WrittenKeys == {"USER_TOKEN", "USER_DATA", "EMPLOYEE_DATA", "BIOMETRIC_ENROLLED",
                "LAST_LOCATION"}

\* keys: the keys that hold a value; removing: the removals clearAllUserData
\* has started and that have not settled; resaved: the keys written while
\* that clearing was under way; expired: a 401 has been handled
\* (clearAllUserData has resolved) and no login has stored a token since;
\* header: what the last request issued since then carried.
EmptyStorage ==
  [keys |-> {}, removing |-> {}, resaved |-> {}, expired |-> FALSE,
   header |-> "none"]

\* Everything but the storage.
clientVars == <<isProd, serverSession, locationCall, biometricCall, usingFallback,
                dashVars, classesVars, inv, load>>

\* setSecureItem / setItem has written `key`: saveUserToken after a login,
\* saveUserData, saveEmployeeData, setBiometricEnrolled, cacheAttendanceData,
\* saveLastLocation, saveSettings.
SetItem(key) ==
  /\ key \notin storage.keys \/ (key = "USER_TOKEN" /\ storage.expired)
  /\ storage' =
       [storage EXCEPT
          !.keys = @ \cup {key},
          !.resaved = IF storage.removing # {} /\ key \in UserKeys
                        THEN @ \cup {key} ELSE @,
          !.expired = IF key = "USER_TOKEN" THEN FALSE ELSE @,
          !.header = IF key = "USER_TOKEN" THEN "none" ELSE @]
  /\ UNCHANGED clientVars

\* The request interceptor: const token = await getUserToken();
\* if (token) config.headers.Authorization = `Bearer ${token}`.
RequestInterceptor ==
  /\ storage' =
       [storage EXCEPT !.header = IF "USER_TOKEN" \in storage.keys
                                    THEN "bearer" ELSE "absent"]
  /\ storage' # storage
  /\ UNCHANGED clientVars

\* The response interceptor on a 401: clearAllUserData() starts its five
\* removals (Promise.all).
ResponseInterceptor401 ==
  /\ storage.header # "none"
  /\ storage.removing = {}
  /\ storage' = [storage EXCEPT !.removing = UserKeys, !.resaved = {}]
  /\ UNCHANGED clientVars

\* deleteSecureItem / removeItem of `key` settles: the key is removed, or the
\* store threw and the error was logged and dropped.  With the last removal
\* clearAllUserData resolves and the interceptor rejects the response.
RemovalSettles(key, removed) ==
  /\ key \in storage.removing
  /\ LET left == storage.removing \ {key}
     IN storage' =
          [storage EXCEPT
             !.removing = left,
             !.keys = IF removed THEN @ \ {key} ELSE @,
             !.resaved = IF left = {} THEN {} ELSE @,
             !.expired = IF left = {} THEN "USER_TOKEN" \notin storage.resaved ELSE @,
             !.header = IF left = {} THEN "none" ELSE @]
  /\ UNCHANGED clientVars

\* ----------------------------------------------------------------------
\* Specification of the whole client
\* ----------------------------------------------------------------------
\* Next composes every part: both screens, markAttendance and the refresh
\* with its two fetches as separate steps.  The properties below are stated
\* on the parts that follow it, each of which keeps the variables of the
\* other parts at rest.
Init ==
  /\ isProd \in BOOLEAN
  /\ usingFallback = FALSE
  /\ attendanceData = <<>>
  /\ locationStatus = "unknown"
  /\ actionLoading = "none"
  /\ classes = <<>>
  /\ classesLocationStatus = "unknown"
  /\ classesActionLoading = <<>>
  /\ inv = [i \in Slots |-> IdleInv]
  /\ load = [k \in 1..MaxLoad |-> IdleLoad]
  /\ serverSession = 0
  /\ locationCall = IdleCall("native", 0)
  /\ biometricCall = IdleBiometric("native", TRUE, TRUE)
  /\ storage = EmptyStorage

\* The steps every attendance action shares once it has been entered.
\* Here the location service and the server are left open: any result, any
\* answer, and what they keep is not followed.
PipelineStep ==
  \/ \E i \in Slots, res \in LocationResults :
       LocationResolve(i, res) /\ UNCHANGED locationCall
  \/ \E i \in Slots, b \in BiometricOutcomes :
       BiometricResolve(i, b) /\ UNCHANGED biometricCall
  \/ \E i \in Slots, o \in TransportOutcomes :
       PrimaryResolve(i, o) /\ UNCHANGED serverSession
  \/ \E i \in Slots, o \in TransportOutcomes :
       FallbackResolve(i, o) /\ UNCHANGED serverSession

\* A refresh of the today view, as the handlers see it.
ViewStep ==
  \/ DashboardFocus
  \/ \E k \in LoadSlots, pw \in FlowWorkPayloads, pc \in FlowClassPayloads :
       LoadAttendanceDataResolve(k, pw, pc)

Next ==
  \/ PressWorkCheckIn
  \/ PressWorkCheckOut
  \/ PressClassCheckIn
  \/ PressClassCheckOut
  \/ PressClassesCheckIn
  \/ PressClassesCheckOut
  \/ MarkAttendance
  \/ PipelineStep
  \/ \E i \in Slots : AlertOk(i)
  \/ \E i \in Slots : ClassesAlertOk(i)
  \/ \E i \in Slots : MarkAttendanceReturn(i)
  \/ DashboardFocus
  \/ \E k \in LoadSlots, p \in WorkPayloads \cup {FailedResponse} :
       GetAttendanceDataDone(k, p)
  \/ \E k \in LoadSlots, p \in ClassPayloads \cup {FailedResponse} :
       GetClassAttendanceDataDone(k, p)
  \/ \E k \in LoadSlots : LoadAttendanceDataDone(k)
  \/ \E k \in LoadSlots : LoadAttendanceDataFinally(k)
  \/ \E res \in LocationResults : CheckLocationStatus(res)
  \/ \E res \in LocationResults : ClassesCheckLocationStatus(res)
  \/ \E list \in ClassLists : LoadClasses(list)

Spec == Init /\ [][Next]_vars

\* ----------------------------------------------------------------------
\* The parts of the client
\* ----------------------------------------------------------------------
\* The dashboard, its actions overlapping: its four buttons, its refreshes
\* and its campus status.
NextDashboard ==
  \/ PressWorkCheckIn
  \/ PressWorkCheckOut
  \/ PressClassCheckIn
  \/ PressClassCheckOut
  \/ PipelineStep
  \/ \E i \in Slots : AlertOk(i)
  \/ ViewStep
  \/ \E res \in LocationResults : CheckLocationStatus(res)

SpecDashboard == Init /\ [][NextDashboard]_vars

\* Every handler of every flow called in any state of the screens (the
\* disabling of the buttons left out), one call at a time.
OneAtATime == \A i \in Slots : inv[i].pc = "idle"

NextHandlers ==
  \/ OneAtATime /\ HandleWorkCheckIn
  \/ OneAtATime /\ HandleWorkCheckOut
  \/ OneAtATime /\ \E classId \in 0..MaxClassId : HandleClassCheckIn(classId)
  \/ OneAtATime /\ \E classId \in 0..MaxClassId : HandleClassCheckOut(classId)
  \/ OneAtATime /\ \E classId \in Classes, type \in ClassTypes :
                     HandleClassAttendance(classId, type)
  \/ OneAtATime /\ MarkAttendance
  \/ PipelineStep
  \/ \E i \in Slots : AlertOk(i)
  \/ \E i \in Slots : ClassesAlertOk(i)
  \/ \E i \in Slots : MarkAttendanceReturn(i)
  \/ ViewStep

SpecHandlers == Init /\ [][NextHandlers]_vars

\* The handlers of every flow, one call at a time, beside a classes screen
\* that has loaded its class list.
NextOutcome ==
  \/ NextHandlers
  \/ \E list \in FlowClassLists : LoadClasses(list)

SpecOutcome == Init /\ [][NextOutcome]_vars

\* AttendanceService.markAttendance called by client code, one call at a
\* time, beside a dashboard that only refreshes its view.
NextService ==
  \/ OneAtATime /\ MarkAttendance
  \/ PipelineStep
  \/ \E i \in Slots : MarkAttendanceReturn(i)
  \/ ViewStep

SpecService == Init /\ [][NextService]_vars

\* The classes screen, its actions taken one at a time, beside a dashboard
\* that only refreshes its view.
NextClasses ==
  \/ OneAtATime /\ PressClassesCheckIn
  \/ OneAtATime /\ PressClassesCheckOut
  \/ PipelineStep
  \/ \E i \in Slots : ClassesAlertOk(i)
  \/ \E list \in FlowClassLists : LoadClasses(list)
  \/ \E res \in LocationResults : ClassesCheckLocationStatus(res)
  \/ ViewStep

SpecClasses == Init /\ [][NextClasses]_vars

\* The first refresh of the today view after the dashboard has mounted, over
\* every shape of the two answers.
FirstRefresh ==
  /\ attendanceData = <<>>
  /\ \A k \in LoadSlots : load[k].pc = "idle"
  /\ DashboardFocus

NextReconcile ==
  \/ FirstRefresh
  \/ \E k \in LoadSlots, p \in WorkPayloads \cup {FailedResponse} :
       GetAttendanceDataDone(k, p)
  \/ \E k \in LoadSlots, p \in ClassPayloads \cup {FailedResponse} :
       GetClassAttendanceDataDone(k, p)
  \/ \E k \in LoadSlots : LoadAttendanceDataDone(k)
  \/ \E k \in LoadSlots : LoadAttendanceDataFinally(k)

SpecReconcile == Init /\ [][NextReconcile]_vars

\* The dashboard's actions taken one at a time after its first refresh, with
\* what the run-time schedules by itself made fair: the promises of the
\* location, biometric and transport steps settle and a started refresh
\* gets its answers.  Pressing a button or the OK of an alert is the user's
\* step and carries no fairness.
NextAcknowledge ==
  \/ FirstRefresh
  \/ OneAtATime /\ PressWorkCheckIn
  \/ OneAtATime /\ PressWorkCheckOut
  \/ OneAtATime /\ PressClassCheckIn
  \/ OneAtATime /\ PressClassCheckOut
  \/ PipelineStep
  \/ \E i \in Slots : AlertOk(i)
  \/ \E k \in LoadSlots, pw \in FlowWorkPayloads, pc \in FlowClassPayloads :
       LoadAttendanceDataResolve(k, pw, pc)
  \/ \E res \in LocationResults : CheckLocationStatus(res)

SpecAcknowledge ==
  /\ Init /\ [][NextAcknowledge]_vars
  /\ WF_vars(PipelineStep)
  /\ WF_vars(\E k \in LoadSlots, pw \in FlowWorkPayloads, pc \in FlowClassPayloads :
               LoadAttendanceDataResolve(k, pw, pc))

\* The work actions of the dashboard, one at a time, with the location
\* service followed step by step on each platform (the refreshes, which the
\* location step does not read, are left unanswered by the server).
InitLocation ==
  /\ isProd \in BOOLEAN
  /\ usingFallback = FALSE
  /\ attendanceData = <<>>
  /\ locationStatus = "unknown"
  /\ actionLoading = "none"
  /\ classes = <<>>
  /\ classesLocationStatus = "unknown"
  /\ classesActionLoading = <<>>
  /\ inv = [i \in Slots |-> IdleInv]
  /\ load = [k \in 1..MaxLoad |-> IdleLoad]
  /\ serverSession = 0
  /\ locationCall \in {IdleCall(platform, 0) : platform \in Platforms}
  /\ biometricCall = IdleBiometric("native", TRUE, TRUE)
  /\ storage = EmptyStorage

NextLocation ==
  \/ OneAtATime /\ HandleWorkCheckIn
  \/ OneAtATime /\ HandleWorkCheckOut
  \/ \E caller \in 0..MaxInv : GetCurrentLocation(caller)
  \/ \E status \in PermissionStatuses : RequestLocationPermissionDone(status)
  \/ \E o \in {"fix", "cached", "denied", "unavailable", "timeout", "error"},
        dm \in GeofenceDistances : PositionResolve(o, dm)
  \/ TenSecondsPass
  \/ CacheExpires
  \/ \E i \in Slots : LocationReturn(i)
  \/ CheckLocationStatusReturn
  \/ \E i \in Slots, b \in BiometricOutcomes :
       BiometricResolve(i, b) /\ UNCHANGED biometricCall
  \/ \E i \in Slots, o \in TransportOutcomes :
       PrimaryResolve(i, o) /\ UNCHANGED serverSession
  \/ \E i \in Slots, o \in TransportOutcomes :
       FallbackResolve(i, o) /\ UNCHANGED serverSession
  \/ \E i \in Slots : AlertOk(i)
  \/ \E k \in LoadSlots :
       LoadAttendanceDataResolve(k, FailedResponse, FailedResponse)

SpecLocation == InitLocation /\ [][NextLocation]_vars

\* The class actions of the dashboard against the echoing server: one action
\* or refresh at a time, each fetch of a refresh answered by the server or
\* lost.
AtRest == OneAtATime /\ \A k \in LoadSlots : load[k].pc = "idle"

NextRoundTrip ==
  \/ AtRest /\ DashboardFocus
  \/ \E res \in LocationResults : CheckLocationStatus(res)
  \/ AtRest /\ PressClassCheckIn
  \/ AtRest /\ PressClassCheckOut
  \/ \E i \in Slots, res \in LocationResults :
       LocationResolve(i, res) /\ UNCHANGED locationCall
  \/ \E i \in Slots, b \in BiometricOutcomes :
       BiometricResolve(i, b) /\ UNCHANGED biometricCall
  \/ \E i \in Slots, o \in TransportOutcomes :
       PrimaryResolve(i, o) /\ ServerRecords(i, o)
  \/ \E i \in Slots, o \in TransportOutcomes :
       FallbackResolve(i, o) /\ ServerRecords(i, o)
  \/ \E i \in Slots : AlertOk(i)
  \/ \E k \in LoadSlots, p \in {EchoWorkAnswer, FailedResponse} :
       GetAttendanceDataDone(k, p)
  \/ \E k \in LoadSlots, p \in {EchoClassAnswer, FailedResponse} :
       GetClassAttendanceDataDone(k, p)
  \/ \E k \in LoadSlots : LoadAttendanceDataDone(k)
  \/ \E k \in LoadSlots : LoadAttendanceDataFinally(k)

SpecRoundTrip == Init /\ [][NextRoundTrip]_vars

\* The same actions and server with refreshes that overlap: the mount and
\* the focus effect both call loadAttendanceData(), and so does the OK of a
\* success alert, whatever refresh is still under way.
InitOverlap ==
  /\ isProd \in BOOLEAN
  /\ usingFallback = FALSE
  /\ attendanceData = <<>>
  /\ locationStatus = "unknown"
  /\ actionLoading = "none"
  /\ classes = <<>>
  /\ classesLocationStatus = "unknown"
  /\ classesActionLoading = <<>>
  /\ inv = [i \in Slots |-> IdleInv]
  /\ load = [k \in 1..MaxOverlap |-> IdleLoad]
  /\ serverSession = 0
  /\ locationCall = IdleCall("native", 0)
  /\ biometricCall = IdleBiometric("native", TRUE, TRUE)
  /\ storage = EmptyStorage

\* No refresh holds both answers without having set the view and returned:
\* the continuation of Promise.all runs before any other event is handled.
Settled ==
  \A k \in LoadSlots :
    /\ load[k].pc # "finishing"
    /\ ~(load[k].pc = "fetching" /\ load[k].work # <<>> /\ load[k].class # <<>>)

NextOverlap ==
  \/ Settled /\ DashboardFocus
  \/ Settled /\ \E res \in LocationResults : CheckLocationStatus(res)
  \/ Settled /\ OneAtATime /\ PressClassCheckIn
  \/ Settled /\ OneAtATime /\ PressClassCheckOut
  \/ Settled /\ \E i \in Slots, res \in LocationResults :
                  LocationResolve(i, res) /\ UNCHANGED locationCall
  \/ Settled /\ \E i \in Slots, b \in BiometricOutcomes :
                  BiometricResolve(i, b) /\ UNCHANGED biometricCall
  \/ Settled /\ \E i \in Slots, o \in TransportOutcomes :
                  PrimaryResolve(i, o) /\ ServerRecords(i, o)
  \/ Settled /\ \E i \in Slots, o \in TransportOutcomes :
                  FallbackResolve(i, o) /\ ServerRecords(i, o)
  \/ Settled /\ \E i \in Slots : AlertOk(i)
  \/ Settled /\ \E k \in LoadSlots : GetAttendanceDataDone(k, EchoWorkAnswer)
  \/ Settled /\ \E k \in LoadSlots :
                  GetClassAttendanceDataDone(k, EchoClassAnswer)
  \/ \E k \in LoadSlots : LoadAttendanceDataDone(k)
  \/ \E k \in LoadSlots : LoadAttendanceDataFinally(k)

SpecOverlap == InitOverlap /\ [][NextOverlap]_vars

\* The session kept in storage: logins, requests, 401 answers and the
\* clearing they start, with a store whose removals may fail.
NextSession ==
  \/ \E key \in WrittenKeys : SetItem(key)
  \/ RequestInterceptor
  \/ ResponseInterceptor401
  \/ \E key \in UserKeys, removed \in BOOLEAN : RemovalSettles(key, removed)

SpecSession == Init /\ [][NextSession]_vars

\* Refresh after refresh of the dashboard, the two fetches of each answered
\* in either order.
NextRefresh ==
  \/ DashboardFocus
  \/ \E k \in LoadSlots, p \in FlowWorkPayloads : GetAttendanceDataDone(k, p)
  \/ \E k \in LoadSlots, p \in FlowClassPayloads \cup {FailedResponse} :
       GetClassAttendanceDataDone(k, p)
  \/ \E k \in LoadSlots : LoadAttendanceDataDone(k)
  \/ \E k \in LoadSlots : LoadAttendanceDataFinally(k)

SpecRefresh == Init /\ [][NextRefresh]_vars

\* The work actions of the dashboard, one at a time, with the biometric
\* service followed step by step on each platform and device.
InitBiometric ==
  /\ isProd \in BOOLEAN
  /\ usingFallback = FALSE
  /\ attendanceData = <<>>
  /\ locationStatus = "unknown"
  /\ actionLoading = "none"
  /\ classes = <<>>
  /\ classesLocationStatus = "unknown"
  /\ classesActionLoading = <<>>
  /\ inv = [i \in Slots |-> IdleInv]
  /\ load = [k \in 1..MaxLoad |-> IdleLoad]
  /\ serverSession = 0
  /\ locationCall = IdleCall("native", 0)
  /\ biometricCall \in {IdleBiometric(platform, hardware, enrolled) :
                           platform \in BiometricPlatforms,
                           hardware \in BOOLEAN, enrolled \in BOOLEAN}
  /\ storage = EmptyStorage

NextBiometric ==
  \/ OneAtATime /\ HandleWorkCheckIn
  \/ OneAtATime /\ HandleWorkCheckOut
  \/ \E i \in Slots, res \in LocationResults :
       LocationResolve(i, res) /\ UNCHANGED locationCall
  \/ \E caller \in Slots, confirmed \in BOOLEAN :
       AuthenticateWithBiometrics(caller, confirmed)
  \/ \E threw \in BOOLEAN : IsBiometricSupportedDone(threw)
  \/ \E threw \in BOOLEAN : IsBiometricEnrolledDone(threw)
  \/ \E success \in BOOLEAN : AuthenticateAsyncDone(success)
  \/ \E i \in Slots : BiometricReturn(i)
  \/ \E i \in Slots, o \in TransportOutcomes :
       PrimaryResolve(i, o) /\ UNCHANGED serverSession
  \/ \E i \in Slots, o \in TransportOutcomes :
       FallbackResolve(i, o) /\ UNCHANGED serverSession
  \/ \E i \in Slots : AlertOk(i)
  \/ \E k \in LoadSlots :
       LoadAttendanceDataResolve(k, FailedResponse, FailedResponse)

SpecBiometric == InitBiometric /\ [][NextBiometric]_vars

\* ----------------------------------------------------------------------
\* Properties of the attendance actions
\* ----------------------------------------------------------------------
\* The request of invocation i has been handed to the transport.
Submitted(i) ==
  \/ inv[i].pc \in {"primary", "fallback"}
  \/ inv[i].sent > 0
  \/ inv[i].outcome \in {"succeeded", "submission_failed"}

InFlight(i) == inv[i].pc \in {"locating", "biometric", "primary", "fallback"}

\* Slot i is taken by a handler in this step.
Entered(i) == inv[i].pc = "idle" /\ inv'[i].pc # "idle"

\* The handler that took slot i returned at once with `outcome`, before any
\* location request, biometric prompt or submission.
ShortCircuited(i, outcome) ==
  /\ inv'[i].pc = "done" /\ inv'[i].outcome = outcome
  /\ inv'[i].loc = "none" /\ inv'[i].bio = "none" /\ inv'[i].sent = 0

\* C1: in every flow, a request is handed to the transport only after the
\* location step succeeded inside the geofence and the biometric step
\* succeeded.
C1_SubmitOnlyAfterBothGates ==
  \A i \in Slots :
    Submitted(i) => inv[i].loc = "inside" /\ inv[i].bio = "verified"

C1_Witness ==
  \E i \in Slots :
    /\ inv[i].flow = "dashboard"
    /\ inv[i].outcome = "succeeded" /\ inv[i].sent = 1
    /\ inv[i].loc = "inside" /\ inv[i].bio = "verified"

\* C2: one action invocation makes at most one submission request reach a
\* server, the primary/fallback logic included.
C2_AtMostOnePost == \A i \in Slots : inv[i].sent <= 1

\* C3: two invocations of the same action kind are never in flight together
\* (the second is turned away by the in-flight indicator of its kind).
C3_OneInFlightPerKind ==
  \A i, j \in Slots :
    (i # j /\ InFlight(i) /\ InFlight(j) /\ inv[i].flow = inv[j].flow)
      => <<inv[i].type, inv[i].classId>> # <<inv[j].type, inv[j].classId>>

\* C4: the biometric prompt is shown only after the location step passed the
\* geofence gate; an action whose location failed or was outside ends there,
\* with no prompt and no submission.
C4_GeofenceBeforeBiometric ==
  \A i \in Slots :
    /\ inv[i].bio # "none" => inv[i].loc = "inside"
    /\ inv[i].loc \in {"failed", "outside"} =>
         /\ inv[i].pc = "done" /\ inv[i].bio = "none" /\ inv[i].sent = 0
         /\ inv[i].outcome \in {"location_failed", "out_of_range"}

C4_Witness ==
  \E i \in Slots :
    /\ inv[i].flow = "classes"
    /\ inv[i].loc = "outside" /\ inv[i].outcome = "out_of_range"
    /\ inv[i].bio = "none" /\ inv[i].sent = 0

\* C5: a work check-in invoked while the today view says checked in returns
\* at once with AlreadyCheckedIn: no location, no biometric, no submission.
C5_AlreadyCheckedIn ==
  [][\A i \in Slots :
       (Entered(i) /\ inv'[i].type = "work_checkin" /\ IsCheckedIn)
         => ShortCircuited(i, "already_checked_in")]_vars

\* C6: a class check-in invoked while the today view says not checked in to
\* work returns at once with WorkCheckInRequired, in every flow.
C6_WorkCheckInRequired ==
  [][\A i \in Slots :
       (Entered(i) /\ inv'[i].type = "class_checkin" /\ attendanceData # <<>>
          /\ ~IsCheckedIn)
         => ShortCircuited(i, "checkin_required")]_vars

\* C7: a class check-in invoked while the today view holds an active class
\* session returns at once with AnotherClassActive, and one invoked with no
\* class id returns at once with ClassRequired, in every flow.
C7_AnotherClassActive ==
  [][\A i \in Slots :
       (Entered(i) /\ inv'[i].type = "class_checkin")
         => /\ inv'[i].classId = 0 => ShortCircuited(i, "class_required")
            /\ (inv'[i].classId # 0 /\ ActiveClassSession # <<>>)
                 => ShortCircuited(i, "another_class_active")]_vars

\* C8: a work check-out invoked while the today view says not checked in
\* returns at once with NotCheckedIn and is never sent.
C8_NotCheckedIn ==
  [][\A i \in Slots :
       (Entered(i) /\ inv'[i].type = "work_checkout" /\ attendanceData # <<>>
          /\ ~IsCheckedIn)
         => ShortCircuited(i, "not_checked_in")]_vars

\* C9: a class check-out goes on to the location step exactly when the today
\* view holds an active class session for its class id (given, or taken from
\* the active session); otherwise it returns at once with
\* NoActiveClassSession, the only business failure of a class check-out.
C9_NoActiveClassSession ==
  [][\A i \in Slots :
       (Entered(i) /\ inv'[i].type = "class_checkout")
         => IF /\ ActiveClassSession # <<>>
               /\ ActiveClassSession[1].class_id = inv'[i].classId
              THEN inv'[i].pc = "locating"
              ELSE ShortCircuited(i, "no_active_class_session")]_vars

\* ----------------------------------------------------------------------
\* Properties of the refresh of the today view
\* ----------------------------------------------------------------------
\* C10: when the class fetch fails and the work fetch succeeds, the view the
\* refresh sets holds the work answer's record and flag, no class record and
\* no active class session.
C10_ClassFetchFailureKeepsWork ==
  \A k \in LoadSlots :
    (load[k].pc = "finishing" /\ load[k].classGet = "fail"
       /\ load[k].work[1].success)
      => attendanceData =
           <<[work_attendance |-> load[k].work[1].data[1].work_attendance,
              is_checked_in |-> load[k].work[1].data[1].is_checked_in,
              class_attendance |-> <<>>,
              active_class_session |-> <<>>]>>

C10_Witness ==
  \E k \in LoadSlots :
    /\ load[k].pc = "finishing" /\ load[k].classGet = "fail"
    /\ load[k].work[1].success
    /\ attendanceData[1].is_checked_in
    /\ attendanceData[1].work_attendance # <<>>
    /\ attendanceData[1].class_attendance = <<>>

\* The class part of the view a successful class answer stands for.
ClassPartOf(classResponse) ==
  LET today == classResponse.data[1].today
  IN [class_attendance |->
        IF today = <<>> \/ today[1].class_attendance = <<>>
          THEN <<>> ELSE today[1].class_attendance[1],
      active_class_session |->
        IF today = <<>> THEN <<>> ELSE today[1].active_class_session]

\* C11: when the work fetch fails and the class fetch succeeds, the view the
\* refresh sets keeps the class answer's records and active class session.
C11_WorkFetchFailureKeepsClass ==
  \A k \in LoadSlots :
    (load[k].pc = "finishing" /\ ~load[k].work[1].success
       /\ load[k].classGet = "ok")
      => /\ attendanceData[1].class_attendance =
              ClassPartOf(load[k].class[1]).class_attendance
         /\ attendanceData[1].active_class_session =
              ClassPartOf(load[k].class[1]).active_class_session

\* The view holds a work record of today with a check-in and no check-out.
OpenWorkRecord ==
  /\ attendanceData[1].work_attendance # <<>>
  /\ attendanceData[1].work_attendance[1].check_in_time # 0
  /\ attendanceData[1].work_attendance[1].check_out_time = 0

\* C12: the is-checked-in flag of the reconciled view is the server's
\* isCheckedIn when the body carries one (true or false), and otherwise says
\* whether today's work record has a check-in time and no check-out time.
C12_FlagTakesPrecedence ==
  \A k \in LoadSlots :
    (load[k].pc = "finishing" /\ load[k].role = "employee"
       /\ load[k].class[1].success)
      => attendanceData[1].is_checked_in =
           IF load[k].isCheckedIn = "missing" THEN OpenWorkRecord
           ELSE load[k].isCheckedIn = "true"

\* C13 as stated: whenever the work answer lacks the isCheckedIn flag or
\* names no known role, the reconciled view says not checked in, and whenever
\* the class answer has no today section it holds no active class session.
C13_MissingFieldMeansNotCheckedIn ==
  \A k \in LoadSlots :
    (load[k].pc = "finishing" /\ load[k].workGet = "ok")
      => /\ (load[k].isCheckedIn = "missing" \/ load[k].role = "none")
              => ~attendanceData[1].is_checked_in
         /\ load[k].class[1].data[1].today = <<>>
              => attendanceData[1].active_class_session = <<>>

\* C13, amended: the reconciled view says checked in only on evidence in the
\* work answer (role employee with isCheckedIn true, or with a record of
\* today that has a check-in and no check-out), and holds an active class
\* session only when the class answer carried that session; with no such
\* evidence it says not checked in and no active session.
C13_CheckedInOnlyOnEvidence ==
  \A k \in LoadSlots :
    load[k].pc = "finishing"
      => /\ attendanceData[1].is_checked_in
              => /\ load[k].role = "employee"
                 /\ load[k].isCheckedIn = "true" \/ OpenWorkRecord
         /\ attendanceData[1].active_class_session # <<>>
              => /\ load[k].classGet = "ok"
                 /\ attendanceData[1].active_class_session =
                      ClassPartOf(load[k].class[1]).active_class_session

C13_Witness ==
  \E k \in LoadSlots :
    /\ load[k].pc = "finishing" /\ load[k].workGet = "ok"
    /\ load[k].role = "none" /\ load[k].isCheckedIn = "missing"
    /\ load[k].class[1].data[1].today = <<>>
    /\ ~attendanceData[1].is_checked_in
    /\ attendanceData[1].active_class_session = <<>>

\* The class records of the view that have a check-in and no check-out.
OpenClassRecords ==
  {n \in 1..Len(attendanceData[1].class_attendance) :
     /\ attendanceData[1].class_attendance[n].check_in_time # 0
     /\ attendanceData[1].class_attendance[n].check_out_time = 0}

\* C14: in every reconciled view the active class session is null when no
\* class record has a check-in without a check-out, and is one of those
\* records when there are any.
C14_ActiveSessionIsOpenRecord ==
  attendanceData # <<>> =>
    IF OpenClassRecords = {}
      THEN attendanceData[1].active_class_session = <<>>
      ELSE \E n \in OpenClassRecords :
             attendanceData[1].active_class_session =
               <<attendanceData[1].class_attendance[n]>>

\* C15: every action whose submission succeeded is eventually followed by a
\* refresh of the today view (a loadAttendanceData call under way).
C15_SuccessLeadsToRefresh ==
  \A i \in Slots :
    (inv[i].outcome = "succeeded") ~> (\E k \in LoadSlots : load[k].pc = "fetching")

\* ----------------------------------------------------------------------
\* Properties of the location step
\* ----------------------------------------------------------------------
\* C19: the sample with which an action passes the geofence gate was
\* acquired by the position request of that action's own getCurrentLocation
\* call, never a position held from before.
C19_SampleAcquiredInInvocation ==
  [][\A i \in Slots :
       (inv[i].pc = "locating" /\ inv'[i].loc = "inside")
         => /\ locationCall.caller = i /\ locationCall.requested
            /\ locationCall.sample = "fresh"]_vars

\* C20: on every platform a position request is issued only after the
\* permission has been asked for, and a call whose permission was denied
\* ends in permission-denied with no position request issued.
C20_PermissionBeforePosition ==
  /\ locationCall.requested => locationCall.asked
  /\ locationCall.permission = "denied"
       => /\ ~locationCall.requested
          /\ locationCall.pc = "done" => locationCall.outcome = "permission_denied"

\* ----------------------------------------------------------------------
\* Properties of the round trip through the server
\* ----------------------------------------------------------------------
\* C16: once the server has accepted a class check-in for class c and holds
\* its session, a refresh whose two fetches it answers sets a today view
\* whose active class session has class id c.
C16_RoundTrip ==
  \A k \in LoadSlots :
    (load[k].pc = "finishing" /\ load[k].workGet = "ok"
       /\ load[k].classGet = "ok" /\ serverSession # 0)
      => /\ attendanceData[1].active_class_session # <<>>
         /\ attendanceData[1].active_class_session[1].class_id = serverSession

C16_Witness ==
  \E k \in LoadSlots :
    /\ load[k].pc = "finishing" /\ load[k].workGet = "ok"
    /\ load[k].classGet = "ok"
    /\ serverSession = MaxClassId
    /\ attendanceData[1].active_class_session # <<>>
    /\ attendanceData[1].active_class_session[1].class_id = MaxClassId

\* C17: the today view changes only in the one step that follows the
\* resolution of both fetches of a refresh, and then to the merge of that
\* refresh's two answers: while one answer is still awaited the view shows
\* nothing of the other.
C17_ViewReplacedAtOnce ==
  [][attendanceData' # attendanceData
       => \E k \in LoadSlots :
            /\ load[k].pc = "fetching" /\ load'[k].pc = "finishing"
            /\ load[k].work # <<>> /\ load[k].class # <<>>
            /\ attendanceData' =
                 <<LoadAttendanceDataView(
                     GetAllAttendanceData(load[k].work[1], load[k].class[1]))>>]_vars

\* The work answer of a refresh is in and differs from the view, the class
\* answer is still awaited, and the view is the old one.
C17_Witness ==
  \E k \in LoadSlots :
    /\ load[k].pc = "fetching" /\ load[k].work # <<>> /\ load[k].class = <<>>
    /\ load[k].work[1].success
    /\ attendanceData # <<>>
    /\ attendanceData[1].active_class_session # <<>>
    /\ load[k].work[1].data[1].is_checked_in # attendanceData[1].is_checked_in

\* ----------------------------------------------------------------------
\* Properties of the locally held records
\* ----------------------------------------------------------------------
\* C18: the step in which a submission succeeds leaves the locally held
\* class records as they are (they change only when a re-fetch resolves).
C18_RecordsChangeOnlyByRefetch ==
  [][\A i \in Slots :
       (inv[i].outcome # "succeeded" /\ inv'[i].outcome = "succeeded")
         => classes' = classes]_vars

\* C21: the wait for a position is bounded: no getCurrentLocation call is
\* still waiting for its position once ten seconds have passed, it has
\* returned a sample or a failure by then.
C21_BoundedLocationWait ==
  ~(locationCall.pc = "position" /\ locationCall.overdue)

\* C23: the verdict of a fix is inside exactly when its distance from the
\* centre is at most the radius: at the radius it is inside, one metre
\* further it is outside.
C23_BoundaryIsInside ==
  locationCall.outcome = "fix"
    => /\ ResultOf(locationCall).withinGeofence
            <=> locationCall.dm <= GEOFENCE_radius * 10
       /\ locationCall.dm = GEOFENCE_radius * 10
            => ResultOf(locationCall).withinGeofence
       /\ locationCall.dm = GEOFENCE_radius * 10 + 10
            => ~ResultOf(locationCall).withinGeofence

C23_Witness ==
  /\ locationCall.pc = "done" /\ locationCall.outcome = "fix"
  /\ locationCall.caller # 0
  /\ locationCall.dm = GEOFENCE_radius * 10
  /\ ResultOf(locationCall).withinGeofence

\* C30: the distance reported with a location result agrees with its
\* verdict: withinGeofence exactly when the reported distance is at most
\* the radius.
C30_ReportedDistanceAgrees ==
  locationCall.outcome = "fix"
    => (ResultOf(locationCall).withinGeofence
          <=> ResultOf(locationCall).distance <= GEOFENCE_radius)

\* ----------------------------------------------------------------------
\* Properties of the biometric step
\* ----------------------------------------------------------------------
\* C22: on every platform the user is challenged only after the call has
\* found biometric hardware and then an enrolled credential; a device
\* without hardware gives "unsupported" and one without a credential gives
\* "not enrolled", in both cases with no challenge.
C22_BiometricOrder ==
  /\ biometricCall.challenged
       => /\ biometricCall.checkedHardware /\ biometricCall.checkedEnrollment
          /\ biometricCall.hardware /\ biometricCall.enrolled
  /\ biometricCall.checkedEnrollment => biometricCall.checkedHardware
  /\ (biometricCall.pc = "done" /\ ~biometricCall.hardware)
       => biometricCall.outcome = "unsupported"
  /\ (biometricCall.pc = "done" /\ biometricCall.hardware /\ ~biometricCall.enrolled)
       => biometricCall.outcome = "not_enrolled"

\* ----------------------------------------------------------------------
\* Properties of the way actions end
\* ----------------------------------------------------------------------
\* C24: in every flow an action that has ended has a reported outcome; one
\* whose location step failed has shown no biometric prompt and sent
\* nothing, one whose biometric step failed has sent nothing, and the
\* in-flight indicator of its screen is released.
C24_FailuresEndReleased ==
  \A i \in Slots :
    inv[i].pc = "done"
      => /\ inv[i].outcome # "none"
         /\ inv[i].loc \in {"failed", "outside"}
              => /\ inv[i].bio = "none" /\ inv[i].sent = 0
                 /\ inv[i].outcome \in {"location_failed", "out_of_range"}
         /\ inv[i].bio = "failed"
              => inv[i].sent = 0 /\ inv[i].outcome = "biometric_failed"
         /\ (inv[i].bio = "verified" /\ inv[i].outcome # "succeeded")
              => inv[i].outcome = "submission_failed"
         /\ inv[i].flow = "dashboard" => actionLoading = "none"
         /\ inv[i].flow = "classes" => classesActionLoading = <<>>

C24_Witness ==
  \E i \in Slots :
    /\ inv[i].pc = "done" /\ inv[i].flow = "dashboard"
    /\ inv[i].type = "work_checkin"
    /\ inv[i].outcome = "submission_failed" /\ inv[i].bio = "verified"
    /\ actionLoading = "none"

\* C25: while a dashboard action of kind K is in flight, the shared
\* in-flight indicator names K, whatever other actions start or finish in
\* the meantime.
C25_IndicatorHeldWhileInFlight ==
  \A i \in Slots :
    (InFlight(i) /\ inv[i].flow = "dashboard") => actionLoading = inv[i].type

\* C27: in production every request that fails on the primary server is
\* attempted on the fallback server, also while another request is in its
\* own fallback attempt; and when a request ends in a primary success or in
\* a failure of both servers and leaves no request in flight, the shared
\* using-fallback flag is false.
NoRequestInFlightAfter == \A j \in Slots : inv'[j].pc \notin {"primary", "fallback"}
C27_EveryPrimaryFailureFallsBack ==
  [][\A i \in Slots, o \in TransportOutcomes :
       /\ (isProd /\ PrimaryResolve(i, o) /\ ~HttpSuccess(o))
            => inv'[i].pc = "fallback"
       /\ (isProd /\ NoRequestInFlightAfter
              /\ \/ PrimaryResolve(i, o) /\ HttpSuccess(o)
                 \/ FallbackResolve(i, o) /\ ~HttpSuccess(o))
            => ~usingFallback']_vars

\* C28: a submission that fails leaves the today view and the class list as
\* they were and starts no refresh, neither when it ends nor when its alert
\* is acknowledged; the today view changes only when a refresh resolves, a
\* refresh starts only on a focus or on the acknowledgement of a success,
\* and the class list changes only by a load of the list or by a submission
\* that succeeded.
FailsIn(i) ==
  /\ inv[i].pc \in {"primary", "fallback"}
  /\ inv'[i].pc = "done" /\ inv'[i].outcome = "submission_failed"
FailureAcknowledged(i) ==
  /\ inv[i].pc = "done" /\ inv[i].outcome = "submission_failed"
  /\ inv'[i] # inv[i]
SucceedsIn(i) == inv[i].outcome # "succeeded" /\ inv'[i].outcome = "succeeded"
SuccessAcknowledged(i) == inv[i].outcome = "succeeded" /\ inv'[i] = IdleInv
C28_FailedSubmissionKeepsView ==
  [][/\ \A i \in Slots :
          (FailsIn(i) \/ FailureAcknowledged(i))
            => /\ attendanceData' = attendanceData
               /\ classes' = classes
               /\ load' = load
     /\ attendanceData' # attendanceData
          => \E k \in LoadSlots : load[k].pc # "idle" /\ load'[k].pc = "idle"
     /\ (\E k \in LoadSlots : load[k].pc = "idle" /\ load'[k].pc # "idle")
          => inv' = inv \/ \E i \in Slots : SuccessAcknowledged(i)
     /\ classes' # classes
          => inv' = inv \/ \E i \in Slots : SucceedsIn(i)]_vars

C28_Witness ==
  \E i \in Slots :
    /\ inv[i].pc = "done" /\ inv[i].outcome = "submission_failed"
    /\ inv[i].flow = "classes" /\ inv[i].type = "class_checkin"
    /\ inv[i].sent > 0
    /\ classes # <<>> /\ classes[inv[i].classId].check_in_time = 0
    /\ attendanceData # <<>>

\* C26: when refreshes of the today view overlap, a refresh that is not the
\* one started last and that completes after the one started last has
\* completed leaves the view as that one set it.
LatestCompleted == \A j \in LoadSlots : load[j].latest => load[j].pc # "fetching"
C26_LastStartedRefreshWins ==
  [][\A k \in LoadSlots :
       (/\ load[k].pc = "fetching" /\ load'[k].pc = "finishing"
        /\ ~load[k].latest
        /\ LatestCompleted)
         => attendanceData' = attendanceData]_vars

\* C29: once a 401 has been handled the stored token is gone and no request
\* carries an Authorization header until a login stores a token; when the
\* clearing completes, the user's keys hold nothing but what was written
\* meanwhile; and the clearing leaves last location and settings as they
\* were.
C29_ExpiredSessionSendsNoToken ==
  [][/\ storage'.expired
          => "USER_TOKEN" \notin storage'.keys /\ storage'.header # "bearer"
     /\ (storage.removing # {} /\ storage'.removing = {})
          => (storage'.keys \cap UserKeys) \subseteq storage.resaved
     /\ storage'.removing # storage.removing
          => storage'.keys \cap KeptKeys = storage.keys \cap KeptKeys]_vars

=============================================================================
